---- MODULE Spec2Model ----
(***************************************************************************)
(* FoodLink LA resource directory: the catalog (ResourceDatabase), its     *)
(* loader, the availability evaluator (is_open_now), the distance          *)
(* calculator (calculate_distance), the search operation                  *)
(* (search_resources) and the lookups, as written in                       *)
(* src/data/database.py, and the chat endpoint that keeps an agent per     *)
(* session.  A caller invokes an operation of the catalog, the operation   *)
(* runs to its return statement, and the caller takes the result.          *)
(*                                                                         *)
(* Specifications                                                          *)
(*   Spec          : one call at a time, over sources of well-formed       *)
(*                   records with different ids.                           *)
(*   SpecLoad      : one call at a time, over sources that also hold       *)
(*                   records sharing an id and records the loader cannot   *)
(*                   build a Resource from.                                *)
(*   SpecDistance  : calls of calculate_distance.                          *)
(*   SpecConc      : several searches in flight side by side, their loops  *)
(*                   interleaved one iteration at a time.                  *)
(*   SpecSingleton : calls of get_database() from its call sites, in any   *)
(*                   order, over the sources of SpecLoad.                  *)
(*   SpecChat      : the chat endpoint of src/api/main.py: the session     *)
(*                   dictionary and the agents' histories, with requests   *)
(*                   suspended at the await of process_message.            *)
(*                                                                         *)
(* Representation                                                          *)
(*   Optional[T]   : <<>> is None, <<x>> is the value x.                   *)
(*   coordinates   : integers, in units of 1e-5 degree.                    *)
(*   miles         : integers, in hundredths of a mile (the code rounds    *)
(*                   every distance to 2 decimals).                        *)
(*   "HH:MM" text  : a sequence of one-character strings.                  *)
(*   clock reading : an index into Instants, a list of sample instants in  *)
(*                   increasing order.                                     *)
(***************************************************************************)
EXTENDS Integers, Sequences, FiniteSets, TLC

VARIABLES
    source,      \* the content of data/resources.json, fixed for the process
    db,          \* _db_instance: None, or the ResourceDatabase object
    clock,       \* the current local time, as an index into Instants
    request,     \* the call in progress: None, or its kind and arguments
    response,    \* None, or what the operation called has computed
    frames,      \* the searches in flight side by side: the arguments and
                 \* locals of each
    loads,       \* how many times ResourceDatabase() has been constructed
    agent_sessions,  \* the session dictionary: session_id -> agent
    chats        \* the chat requests suspended at the await: the arguments
                 \* and locals of each

vars == <<source, db, clock, request, response, frames,
          loads, agent_sessions, chats>>

None == <<>>
Some(x) == <<x>>

\* agent_sessions = {} at import: no session has an agent
NoSessions == [session_id \in {} |-> None]

Min(a, b) == IF a <= b THEN a ELSE b
Max(a, b) == IF a >= b THEN a ELSE b

RECURSIVE SumTo(_, _)
\* adv[1] + ... + adv[n]
SumTo(adv, n) == IF n = 0 THEN 0 ELSE adv[n] + SumTo(adv, n - 1)

(***************************************************************************)
(* Bounds of the model.                                                    *)
(***************************************************************************)
\* the longest catalog source (a list of different records of Pool)
MaxCatalog == 3
\* how many instants the clock may advance while one search runs
MaxAdvance == 1
\* how many searches may be in flight at once
MaxSearches == 2
\* how far, in units of 1e-5 degree, the second point of a distance
\* calculation is moved off the first, each way
MaxOffset == 9

(***************************************************************************)
(* str.lower() on the tags the model uses.                                 *)
(***************************************************************************)
lower(s) ==
    CASE s = "Vegan" -> "vegan"
      [] s = "VEGAN" -> "vegan"
      [] s = "Food_Pantry" -> "food_pantry"
      [] s = "Meal_Service" -> "meal_service"
      [] s = "A" -> "a"
      [] s = "UCLA" -> "ucla"
      [] s = "Where is FOOD?" -> "where is food?"
      [] OTHER -> s

(***************************************************************************)
(* The clock.  datetime.now() yields a weekday and a time of day; the      *)
(* time of day carries seconds, so 17:00:01 is later than "17:00".         *)
(***************************************************************************)
DayNames == <<"monday", "tuesday", "wednesday", "thursday", "friday",
              "saturday", "sunday">>

\* weekday: 1 = Monday; secs: seconds since midnight
Instants ==
    << [weekday |-> 1, secs |-> 32399],    \* Monday 08:59:59
       [weekday |-> 1, secs |-> 32400],    \* Monday 09:00:00
       [weekday |-> 1, secs |-> 61200],    \* Monday 17:00:00
       [weekday |-> 1, secs |-> 61201],    \* Monday 17:00:01
       [weekday |-> 2, secs |-> 43200] >>  \* Tuesday 12:00:00

\* now.strftime('%A').lower()
day_name(now) == DayNames[now.weekday]

(***************************************************************************)
(* datetime.strptime(text, "%H:%M").time()                                 *)
(* %H is one or two digits with value 0..23, %M one or two digits with     *)
(* value 0..59, and the whole text must be consumed.  The result is        *)
(* Some(seconds since midnight), or None when strptime raises ValueError.  *)
(***************************************************************************)
Digits == <<"0", "1", "2", "3", "4", "5", "6", "7", "8", "9">>

IsDigit(ch) == \E d \in 1..10 : Digits[d] = ch

DigitValue(ch) == (CHOOSE d \in 1..10 : Digits[d] = ch) - 1

\* value of a text of one or two digits, None for any other text
Number12(text) ==
    IF Len(text) = 1 /\ IsDigit(text[1])
    THEN Some(DigitValue(text[1]))
    ELSE IF Len(text) = 2 /\ IsDigit(text[1]) /\ IsDigit(text[2])
         THEN Some(10 * DigitValue(text[1]) + DigitValue(text[2]))
         ELSE None

strptime_HM(text) ==
    LET colons == {i \in 1..Len(text) : text[i] = ":"} IN
    IF Cardinality(colons) # 1
    THEN None
    ELSE LET k == CHOOSE i \in colons : TRUE
             hh == Number12(SubSeq(text, 1, k - 1))
             mm == Number12(SubSeq(text, k + 1, Len(text)))
         IN IF hh = None \/ mm = None THEN None
            ELSE IF hh[1] > 23 \/ mm[1] > 59 THEN None
            ELSE Some(3600 * hh[1] + 60 * mm[1])

\* Python truth value of an Optional[str]: None and "" are false
Truthy(opt) == opt # None /\ opt[1] # <<>>

(***************************************************************************)
(* ResourceDatabase.is_open_now, given the reading datetime.now() returns. *)
(***************************************************************************)
\* variant: the closing instant itself counts as closed
is_open_now_before_close(resource, now) ==
    IF day_name(now) \notin DOMAIN resource.hours
    THEN FALSE
    ELSE LET day_hours == resource.hours[day_name(now)] IN
         IF day_hours.status # "open"
         THEN FALSE
         ELSE IF ~Truthy(day_hours.open) \/ ~Truthy(day_hours.close)
         THEN FALSE
         ELSE LET open_time == strptime_HM(day_hours.open[1])
                  close_time == strptime_HM(day_hours.close[1])
              IN IF open_time = None \/ close_time = None
                 THEN FALSE
                 ELSE open_time[1] <= now.secs /\ now.secs < close_time[1]

\* variant: only the status "closed" is turned away
is_open_now_unless_closed(resource, now) ==
    IF day_name(now) \notin DOMAIN resource.hours
    THEN FALSE
    ELSE LET day_hours == resource.hours[day_name(now)] IN
         IF day_hours.status = "closed"
         THEN FALSE
         ELSE IF ~Truthy(day_hours.open) \/ ~Truthy(day_hours.close)
         THEN FALSE
         ELSE LET open_time == strptime_HM(day_hours.open[1])
                  close_time == strptime_HM(day_hours.close[1])
              IN IF open_time = None \/ close_time = None
                 THEN FALSE
                 ELSE open_time[1] <= now.secs /\ now.secs <= close_time[1]

is_open_now(resource, now) ==
    IF day_name(now) \notin DOMAIN resource.hours
    THEN FALSE
    ELSE LET day_hours == resource.hours[day_name(now)] IN
         IF day_hours.status # "open"
         THEN FALSE
         ELSE IF ~Truthy(day_hours.open) \/ ~Truthy(day_hours.close)
         THEN FALSE
         ELSE LET open_time == strptime_HM(day_hours.open[1])
                  close_time == strptime_HM(day_hours.close[1])
              IN IF open_time = None \/ close_time = None
                 THEN FALSE     \* except Exception: return False
                 ELSE open_time[1] <= now.secs /\ now.secs <= close_time[1]

(***************************************************************************)
(* ResourceDatabase.calculate_distance, in fixed-point arithmetic.         *)
(* Coordinates are in 1e-5 degree and the result is in hundredths of a     *)
(* mile.  For points of one metropolitan area (a few thousand units        *)
(* apart) sin(x/2)^2 = (x/2)^2 and atan2(sqrt(a), sqrt(1-a)) = sqrt(a)     *)
(* to well below the rounding step, so a is carried as                     *)
(* delta_lat^2 + cos(lat1)*cos(lat2)*delta_lon^2 in hundredths of a        *)
(* squared unit; on every pair of the model's coordinates the value        *)
(* equals the one the Python function returns.                             *)
(***************************************************************************)
\* Radius of Earth in miles
R == 3959

\* math.radians of a coordinate, in 1e-4 radian
radians(x) == ((x \div 1000) * 17453) \div 10000

\* math.cos of a coordinate, times 10^4 (Taylor series up to x^6)
cos(x) ==
    LET r == radians(x)
        r2 == (r * r) \div 10000
        r4 == (r2 * r2) \div 10000
        r6 == (r4 * r2) \div 10000
    IN 10000 - (r2 \div 2) + (r4 \div 24) - (r6 \div 720)

RECURSIVE sqrt_between(_, _, _)
\* the largest r in lo..hi with r*r <= n
sqrt_between(n, lo, hi) ==
    IF lo = hi THEN lo
    ELSE LET mid == (lo + hi + 1) \div 2 IN
         IF mid * mid <= n THEN sqrt_between(n, mid, hi)
                           ELSE sqrt_between(n, lo, mid - 1)

\* math.sqrt, rounded down
sqrt(n) == sqrt_between(n, 0, 46340)

\* variant: the distance is cut to 2 decimals, not rounded
calculate_distance_truncating(lat1, lon1, lat2, lon2) ==
    LET delta_lat == lat2 - lat1
        delta_lon == lon2 - lon1
        coscos == (cos(lat1) * cos(lat2)) \div 10000
        dlon2 == delta_lon * delta_lon
        a == 100 * delta_lat * delta_lat
             + (dlon2 \div 100) * coscos
             + ((dlon2 % 100) * coscos) \div 100
        c == sqrt(4 * a)
        distance == (((c * R) \div 1000) * 8727) \div 10000
    IN distance \div 1000

calculate_distance(lat1, lon1, lat2, lon2) ==
    LET delta_lat == lat2 - lat1
        delta_lon == lon2 - lon1
        coscos == (cos(lat1) * cos(lat2)) \div 10000
        dlon2 == delta_lon * delta_lon
        \* the haversine a, in hundredths of a squared unit of 1e-5 degree
        a == 100 * delta_lat * delta_lat
             + (dlon2 \div 100) * coscos
             + ((dlon2 % 100) * coscos) \div 100
        \* the central angle c, in 1/20 of 1e-5 degree
        c == sqrt(4 * a)
        \* R * c, in 1e-5 mile
        distance == (((c * R) \div 1000) * 8727) \div 10000
    IN (distance + 500) \div 1000          \* round(distance, 2)

(***************************************************************************)
(* The pieces of ResourceDatabase.search_resources.                        *)
(***************************************************************************)
\* resource.type not in resource_types (list membership: equality of str)
type_in(type, resource_types) ==
    \E i \in 1..Len(resource_types) : resource_types[i] = type

\* variant: all(...) in place of any(...)
has_dietary_match_all(resource, dietary_needs) ==
    \A n \in 1..Len(dietary_needs) :
        \E o \in 1..Len(resource.dietary_options) :
            lower(dietary_needs[n]) = lower(resource.dietary_options[o])

\* any(need.lower() in [opt.lower() for opt in resource.dietary_options]
\*     for need in dietary_needs)
has_dietary_match(resource, dietary_needs) ==
    \E n \in 1..Len(dietary_needs) :
        \E o \in 1..Len(resource.dietary_options) :
            lower(dietary_needs[n]) = lower(resource.dietary_options[o])

\* lat is not None and lon is not None
has_point(q) == q.lat # None /\ q.lon # None

\* variant: >= in place of >
too_far_at_bound(distance, max_distance_miles) == distance >= max_distance_miles

\* distance > max_distance_miles
too_far(distance, max_distance_miles) == distance > max_distance_miles

\* variant: the copy's is_open_now is left unassigned
resource_copy_without_open(resource, distance, open) ==
    [resource EXCEPT !.distance_miles = distance]

\* resource.model_copy() with the two computed fields assigned
resource_copy(resource, distance, open) ==
    [resource EXCEPT !.distance_miles = distance, !.is_open_now = Some(open)]

\* variant: the dietary check is made also when no need is asked for
visit_always_dietary(resource, q, now_filter, now_attach) ==
    IF q.open_now /\ ~is_open_now(resource, now_filter)
    THEN None
    ELSE IF q.resource_types # <<>> /\ ~type_in(resource.type, q.resource_types)
    THEN None
    ELSE IF ~has_dietary_match(resource, q.dietary_needs)
    THEN None
    ELSE LET distance ==
                 IF has_point(q)
                 THEN Some(calculate_distance(q.lat[1], q.lon[1],
                                              resource.lat, resource.lon))
                 ELSE None
         IN IF has_point(q) /\ too_far(distance[1], q.max_distance_miles)
            THEN None
            ELSE Some(resource_copy(resource, distance,
                                    is_open_now(resource, now_attach)))

\* One iteration of the loop over self.resources: None when the resource is
\* skipped (continue), else Some(the copy appended to results).  now_filter and
\* now_attach are the clock readings of the two is_open_now calls.
visit(resource, q, now_filter, now_attach) ==
    IF q.open_now /\ ~is_open_now(resource, now_filter)
    THEN None
    ELSE IF q.resource_types # <<>> /\ ~type_in(resource.type, q.resource_types)
    THEN None
    ELSE IF q.dietary_needs # <<>> /\ ~has_dietary_match(resource, q.dietary_needs)
    THEN None
    ELSE LET distance ==
                 IF has_point(q)
                 THEN Some(calculate_distance(q.lat[1], q.lon[1],
                                              resource.lat, resource.lon))
                 ELSE None
         IN IF has_point(q) /\ too_far(distance[1], q.max_distance_miles)
            THEN None
            ELSE Some(resource_copy(resource, distance,
                                    is_open_now(resource, now_attach)))

\* The clock reading of the s-th is_open_now call slot of a search that began
\* at clock reading clk: slot 2i-1 is the filter call for resource i, slot 2i
\* the call that fills is_open_now of its copy; adv[s] tells how many instants
\* the clock advanced just before slot s.
read_clock(clk, adv, s) == Instants[clk + SumTo(adv, s)]

RECURSIVE scan_prepending(_, _, _, _, _)
\* variant: each copy is put at the front of results
scan_prepending(resources, q, clk, adv, i) ==
    IF i = 0 THEN <<>>
    ELSE visit(resources[i], q,
               read_clock(clk, adv, 2 * i - 1), read_clock(clk, adv, 2 * i))
         \o scan_prepending(resources, q, clk, adv, i - 1)

RECURSIVE scan(_, _, _, _, _)
\* results after the loop has visited resources 1..i
scan(resources, q, clk, adv, i) ==
    IF i = 0 THEN <<>>
    ELSE scan(resources, q, clk, adv, i - 1)
         \o visit(resources[i], q,
                  read_clock(clk, adv, 2 * i - 1), read_clock(clk, adv, 2 * i))

\* what each iteration of the loop did: entry i is visit's outcome on resource i
visits(resources, q, clk, adv) ==
    [i \in 1..Len(resources) |->
        visit(resources[i], q,
              read_clock(clk, adv, 2 * i - 1), read_clock(clk, adv, 2 * i))]

\* variant: resource_copy = resource, the computed fields are assigned to
\* the stored entry itself
stored_after_visit_in_place(resource, outcome) ==
    IF outcome = None THEN resource ELSE outcome[1]

\* The entry of self.resources after one iteration of the loop has run on
\* it, outcome being what visit says of the iteration.  The two assignments
\* go to resource_copy, the new object model_copy() returned, so the stored
\* entry keeps its fields.
stored_after_visit(resource, outcome) == resource

\* self.resources when search_resources returns
resources_after_search(resources, q, clk, adv) ==
    [i \in 1..Len(resources) |->
        stored_after_visit(resources[i], visits(resources, q, clk, adv)[i])]

\* float('inf')
Inf == 1000000000

\* key=lambda r: r.distance_miles if r.distance_miles else float('inf')
sort_key(r) ==
    IF r.distance_miles # None /\ r.distance_miles[1] # 0
    THEN r.distance_miles[1]
    ELSE Inf

\* r placed behind every entry whose key is not greater (list.sort is stable)
insert_sorted(sorted, r) ==
    LET keep == {k \in 0..Len(sorted) :
                    \A j \in 1..k : sort_key(sorted[j]) <= sort_key(r)}
        k == CHOOSE m \in keep : \A m2 \in keep : m2 <= m
    IN SubSeq(sorted, 1, k) \o <<r>> \o SubSeq(sorted, k + 1, Len(sorted))

RECURSIVE sort_prefix(_, _)
\* results[1..n], sorted by sort_key
sort_prefix(results, n) ==
    IF n = 0 THEN <<>> ELSE insert_sorted(sort_prefix(results, n - 1), results[n])

\* results.sort(key=...) when a query point is given
sort_results(results, q) ==
    IF has_point(q) THEN sort_prefix(results, Len(results)) ELSE results

\* variant: results[:limit + 1]
slice_to_one_more(results, limit) ==
    IF limit + 1 >= 0
    THEN SubSeq(results, 1, Min(limit + 1, Len(results)))
    ELSE SubSeq(results, 1, Max(Len(results) + limit + 1, 0))

\* results[:limit]
slice_to(results, limit) ==
    IF limit >= 0
    THEN SubSeq(results, 1, Min(limit, Len(results)))
    ELSE SubSeq(results, 1, Max(Len(results) + limit, 0))

\* the local list `results` when the return statement is reached
results_before_return(resources, q, clk, adv) ==
    sort_results(scan(resources, q, clk, adv, Len(resources)), q)

search_resources(resources, q, clk, adv) ==
    slice_to(results_before_return(resources, q, clk, adv), q.limit)

(***************************************************************************)
(* The lookups of ResourceDatabase.  Each returns stored entries           *)
(* themselves, not copies.                                                 *)
(***************************************************************************)
get_all_resources(resources) == resources

\* variant: the ids are compared ignoring letter case
get_resource_by_id_ignoring_case(resources, resource_id) ==
    LET hits == {i \in 1..Len(resources) :
                    lower(resources[i].id) = lower(resource_id)}
    IN IF hits = {} THEN None
       ELSE Some(resources[CHOOSE i \in hits : \A j \in hits : i <= j])

\* the first entry whose id is resource_id, None when the loop ends without one
get_resource_by_id(resources, resource_id) ==
    LET hits == {i \in 1..Len(resources) : resources[i].id = resource_id}
    IN IF hits = {} THEN None
       ELSE Some(resources[CHOOSE i \in hits : \A j \in hits : i <= j])

\* variant: the sentinel "general" is not let through
get_resources_by_target_population_only(resources, population) ==
    SelectSeq(resources, LAMBDA r : r.target_population = population)

get_resources_by_target_population(resources, population) ==
    SelectSeq(resources,
              LAMBDA r : \/ r.target_population = population
                         \/ r.target_population = "general")

(***************************************************************************)
(* The catalog source and ResourceDatabase.load_resources.                 *)
(* A raw record is a JSON object; of the Resource fields the model keeps   *)
(* those some operation reads (id, type, lat, lon, hours,                  *)
(* dietary_options, target_population) and the two computed fields.        *)
(***************************************************************************)
T0900 == <<"0", "9", ":", "0", "0">>
T1700 == <<"1", "7", ":", "0", "0">>
T1000 == <<"1", "0", ":", "0", "0">>
T1400 == <<"1", "4", ":", "0", "0">>
T9am  == <<"9", "a", "m">>
T900  == <<"9", ":", "0", "0">>
T2400 == <<"2", "4", ":", "0", "0">>

HoursEntry(o, c, st) == [open |-> o, close |-> c, status |-> st]

\* at the first query point; Monday 09:00-17:00
RawA == [id |-> "A", type |-> "meal_service",
         lat |-> 3406890, lon |-> -11844520,
         hours |-> [d \in {"monday"} |->
                       HoursEntry(Some(T0900), Some(T1700), "open")],
         dietary_options |-> <<"Vegan", "halal">>,
         target_population |-> "general"]

\* 0.50 mile north of A; Monday hours variable, Tuesday 10:00-14:00
RawB == [id |-> "B", type |-> "food_pantry",
         lat |-> 3407610, lon |-> -11844520,
         hours |-> [d \in {"monday", "tuesday"} |->
                       IF d = "monday"
                       THEN HoursEntry(Some(T0900), Some(T1700), "variable")
                       ELSE HoursEntry(Some(T1000), Some(T1400), "open")],
         dietary_options |-> <<>>,
         target_population |-> "students"]

\* 0.51 mile east of A; Monday opens 17:00 and closes 09:00, Tuesday's
\* opening time is not HH:MM
RawC == [id |-> "C", type |-> "meal_service",
         lat |-> 3406890, lon |-> -11843635,
         hours |-> [d \in {"monday", "tuesday"} |->
                       IF d = "monday"
                       THEN HoursEntry(Some(T1700), Some(T0900), "open")
                       ELSE HoursEntry(Some(T9am), Some(T1700), "open")],
         dietary_options |-> <<"kosher">>,
         target_population |-> "seniors"]

Pool == {RawA, RawB, RawC}

\* the lists of at most n different members of S
SeqsUpTo(S, n) ==
    UNION {{rs \in [1..k -> S] : \A i, j \in 1..k : rs[i] = rs[j] => i = j} :
              k \in 0..n}

\* kind "missing": no file; "malformed": json.load raises; "json": the
\* list under the key 'resources'
Sources ==
    {[kind |-> "missing", resources |-> <<>>],
     [kind |-> "malformed", resources |-> <<>>]}
    \cup {[kind |-> "json", resources |-> rs] : rs \in SeqsUpTo(Pool, MaxCatalog)}

RequiredFields == {"id", "type", "lat", "lon", "hours", "dietary_options",
                   "target_population"}

\* Hours(**hours_data) accepts the entry
hours_valid(h) == h.status \in {"open", "closed", "variable"}

\* the loop body raises nothing on this record
record_valid(raw) ==
    /\ RequiredFields \subseteq DOMAIN raw
    /\ \A d \in DOMAIN raw.hours : hours_valid(raw.hours[d])

\* Resource(**resource_data): the computed fields default to None
Resource(raw) ==
    [f \in DOMAIN raw \cup {"distance_miles", "is_open_now"} |->
        IF f \in DOMAIN raw THEN raw[f] ELSE None]

RECURSIVE load_loop_skipping(_, _)
\* variant: a record that makes the loop body raise is passed over
load_loop_skipping(records, n) ==
    IF n = 0 THEN [resources |-> <<>>, raised |-> FALSE]
    ELSE LET before == load_loop_skipping(records, n - 1) IN
         IF ~record_valid(records[n])
         THEN before
         ELSE [before EXCEPT !.resources = Append(@, Resource(records[n]))]

RECURSIVE load_loop(_, _)
\* The loop over records 1..n: self.resources as the loop leaves it, and
\* whether the loop body raised (the loop stops at the first record that
\* makes it raise).
load_loop(records, n) ==
    IF n = 0 THEN [resources |-> <<>>, raised |-> FALSE]
    ELSE LET before == load_loop(records, n - 1) IN
         IF before.raised \/ ~record_valid(records[n])
         THEN [before EXCEPT !.raised = TRUE]
         ELSE [before EXCEPT !.resources = Append(@, Resource(records[n]))]

\* variant: the handler of Exception leaves self.resources as the loop left it
load_resources_keeping_loaded(src) ==
    IF src.kind # "json"
    THEN <<>>
    ELSE load_loop(src.resources, Len(src.resources)).resources

\* self.resources when load_resources returns
load_resources(src) ==
    IF src.kind # "json"
    THEN <<>>                    \* FileNotFoundError / JSONDecodeError
    ELSE LET loop == load_loop(src.resources, Len(src.resources)) IN
         IF loop.raised THEN <<>> ELSE loop.resources

(***************************************************************************)
(* Sources that put the loader to the test: records that share an id, a    *)
(* record without its hours, a record whose hours carry an unknown status. *)
(***************************************************************************)
\* another record with the id of A
RawA2 == [RawA EXCEPT !.type = "food_pantry", !.lat = 3407610,
                      !.dietary_options = <<>>,
                      !.target_population = "families"]

\* no 'hours' key: resource_data['hours'] raises KeyError
RawNoHours == [id |-> "D", type |-> "food_pantry",
               lat |-> 3406890, lon |-> -11843635,
               dietary_options |-> <<>>,
               target_population |-> "general"]

\* a status that is none of open, closed, variable: Hours(**hours_data)
\* raises ValidationError
RawBadStatus == [RawB EXCEPT !.id = "E",
                             !.hours = [d \in {"monday"} |->
                                 HoursEntry(Some(T0900), Some(T1700), "sometimes")]]

LoadPool == {RawA, RawB, RawA2, RawNoHours, RawBadStatus}

LoadSources ==
    {[kind |-> "missing", resources |-> <<>>],
     [kind |-> "malformed", resources |-> <<>>]}
    \cup {[kind |-> "json", resources |-> rs] : rs \in SeqsUpTo(LoadPool, MaxCatalog)}

(***************************************************************************)
(* Calls of search_resources.                                              *)
(***************************************************************************)
\* the query points: none, a latitude alone, the place of A (0.00, 0.50 and
\* 0.51 mile from A, B and C), and a place about 20 feet north-east of A
\* (0.00, 0.49 and 0.50 mile from A, B and C)
QueryPoints ==
    {<<None, None>>, <<Some(3406890), None>>,
     <<Some(3406890), Some(-11844520)>>, <<Some(3406894), Some(-11844515)>>}

\* max_distance_miles, in hundredths of a mile
MaxDistances == {0, 50}

DietaryNeeds == {<<>>, <<"gluten-free", "VEGAN">>}

ResourceTypes == {<<>>, <<"Food_Pantry", "meal_service">>}

Limits == {-1, 0, 1, 10}

SearchCalls ==
    {[kind |-> "search", lat |-> p[1], lon |-> p[2], max_distance_miles |-> m,
      dietary_needs |-> dn, open_now |-> o, resource_types |-> rt, limit |-> l] :
        p \in QueryPoints, m \in MaxDistances, dn \in DietaryNeeds,
        o \in BOOLEAN, rt \in ResourceTypes, l \in Limits}

\* the day entries is_open_now is probed with: every combination of an absent,
\* empty, well-formed or ill-formed opening and closing time with a status
TimeTexts == {None, Some(<<>>), Some(T0900), Some(T1700), Some(T900),
              Some(T9am), Some(T2400)}

ProbeHours ==
    {HoursEntry(o, c, st) :
        o \in TimeTexts, c \in TimeTexts, st \in {"open", "closed", "variable"}}

\* a resource whose schedule holds Monday alone
ProbeResources ==
    {Resource([RawA EXCEPT !.hours = [d \in {"monday"} |-> h]]) : h \in ProbeHours}

IsOpenCalls == {[kind |-> "is_open_now", resource |-> r] : r \in ProbeResources}

\* the ids looked up: those of the pool, one of them in the other letter
\* case, and one no record has
ResourceIds == {"A", "B", "C", "a", "Z"}

\* the population tags asked for
Populations == {"students", "seniors", "general", "families"}

GetByIdCalls ==
    {[kind |-> "get_resource_by_id", resource_id |-> id] : id \in ResourceIds}

GetAllCalls == {[kind |-> "get_all_resources"]}

GetByPopulationCalls ==
    {[kind |-> "get_resources_by_target_population", population |-> p] :
        p \in Populations}

\* the ways the clock may advance during a search over n resources that
\* begins at clock reading clk
Advances(n, clk) ==
    {adv \in [1..(2 * n) -> 0..MaxAdvance] :
        /\ SumTo(adv, 2 * n) <= MaxAdvance
        /\ clk + SumTo(adv, 2 * n) <= Len(Instants)}

(***************************************************************************)
(* The state machine.                                                      *)
(***************************************************************************)
Init ==
    /\ source \in Sources
    /\ db = None
    /\ clock = 1
    /\ request = None
    /\ response = None
    /\ frames = {}
    /\ loads = 0
    /\ agent_sessions = NoSessions
    /\ chats = {}

\* get_database() on first use: ResourceDatabase() loads the source
Startup ==
    /\ db = None
    /\ db' = Some([resources |-> load_resources(source)])
    /\ loads' = loads + 1
    /\ UNCHANGED <<source, clock, request, response, frames, agent_sessions, chats>>

\* time passes between calls
Tick ==
    /\ request = None
    /\ clock < Len(Instants)
    /\ clock' = clock + 1
    /\ UNCHANGED <<source, loads, db, request, response, frames, agent_sessions, chats>>

\* a caller invokes search_resources
CallSearch ==
    /\ db # None
    /\ request = None
    /\ \E q \in SearchCalls : request' = Some(q)
    /\ UNCHANGED <<source, loads, db, clock, response, frames, agent_sessions, chats>>

\* search_resources runs to its return statement
Search ==
    /\ request # None
    /\ response = None
    /\ request[1].kind = "search"
    /\ LET resources == db[1].resources
           q == request[1]
       IN \E adv \in Advances(Len(resources), clock) :
            /\ response' =
                 Some([adv |-> adv,
                       started |-> clock,
                       visited |-> visits(resources, q, clock, adv),
                       matched |-> results_before_return(resources, q, clock, adv),
                       returned |-> search_resources(resources, q, clock, adv)])
            /\ clock' = clock + SumTo(adv, 2 * Len(resources))
            /\ db' = Some([resources |->
                             resources_after_search(resources, q, clock, adv)])
    /\ UNCHANGED <<source, loads, request, frames, agent_sessions, chats>>

\* a caller invokes is_open_now on a resource
CallIsOpen ==
    /\ db # None
    /\ request = None
    /\ \E c \in IsOpenCalls : request' = Some(c)
    /\ UNCHANGED <<source, loads, db, clock, response, frames, agent_sessions, chats>>

\* is_open_now runs: one reading of the clock
IsOpen ==
    /\ request # None
    /\ response = None
    /\ request[1].kind = "is_open_now"
    /\ response' = Some([started |-> clock,
                         value |-> is_open_now(request[1].resource, Instants[clock])])
    /\ UNCHANGED <<source, loads, db, clock, request, frames, agent_sessions, chats>>

\* a caller invokes get_resource_by_id
CallGetById ==
    /\ db # None
    /\ request = None
    /\ \E c \in GetByIdCalls : request' = Some(c)
    /\ UNCHANGED <<source, loads, db, clock, response, frames, agent_sessions, chats>>

GetById ==
    /\ request # None
    /\ response = None
    /\ request[1].kind = "get_resource_by_id"
    /\ response' = Some([value |->
                           get_resource_by_id(db[1].resources,
                                              request[1].resource_id)])
    /\ UNCHANGED <<source, loads, db, clock, request, frames, agent_sessions, chats>>

\* a caller invokes get_all_resources
CallGetAll ==
    /\ db # None
    /\ request = None
    /\ \E c \in GetAllCalls : request' = Some(c)
    /\ UNCHANGED <<source, loads, db, clock, response, frames, agent_sessions, chats>>

GetAll ==
    /\ request # None
    /\ response = None
    /\ request[1].kind = "get_all_resources"
    /\ response' = Some([value |-> get_all_resources(db[1].resources)])
    /\ UNCHANGED <<source, loads, db, clock, request, frames, agent_sessions, chats>>

\* a caller invokes get_resources_by_target_population
CallGetByPopulation ==
    /\ db # None
    /\ request = None
    /\ \E c \in GetByPopulationCalls : request' = Some(c)
    /\ UNCHANGED <<source, loads, db, clock, response, frames, agent_sessions, chats>>

GetByPopulation ==
    /\ request # None
    /\ response = None
    /\ request[1].kind = "get_resources_by_target_population"
    /\ response' = Some([value |->
                           get_resources_by_target_population(
                               db[1].resources, request[1].population)])
    /\ UNCHANGED <<source, loads, db, clock, request, frames, agent_sessions, chats>>

\* the caller takes the result
Return ==
    /\ response # None
    /\ request' = None
    /\ response' = None
    /\ UNCHANGED <<source, loads, db, clock, frames, agent_sessions, chats>>

Next ==
    \/ Startup
    \/ Tick
    \/ CallSearch
    \/ Search
    \/ CallIsOpen
    \/ IsOpen
    \/ CallGetById
    \/ GetById
    \/ CallGetAll
    \/ GetAll
    \/ CallGetByPopulation
    \/ GetByPopulation
    \/ Return

Spec == Init /\ [][Next]_vars

(***************************************************************************)
(* Searches in flight side by side.  Each request has its own arguments    *)
(* and its own local list `results`; all of them walk the one list         *)
(* self.resources of the shared instance, one loop iteration at a time,    *)
(* and read the one clock.  Requests that agree in every argument, local   *)
(* and clock reading are one member of frames.                             *)
(***************************************************************************)
\* the searches requested side by side: the open resources within half a
\* mile of the first query point, and a plain listing
ConcCalls ==
    {q \in SearchCalls :
        /\ q.limit = 10 /\ q.max_distance_miles = 50
        /\ q.resource_types = <<>> /\ q.dietary_needs = <<>>
        /\ \/ q.lat = Some(3406890) /\ q.lon = Some(-11844520) /\ q.open_now
           \/ q.lat = None /\ q.lon = None /\ ~q.open_now}

\* the loop of frame f has visited this many entries
Position(f) == Len(f.adv) \div 2

Running(f) == f.returned = None

\* the clock may advance by k: no search in flight sees it advance by more
\* than MaxAdvance in all
MayAdvance(k) ==
    /\ clock + k <= Len(Instants)
    /\ \A f \in frames : Running(f) => clock + k - f.started <= MaxAdvance

\* time passes while searches are in flight
ConcTick ==
    /\ MayAdvance(1)
    /\ clock' = clock + 1
    /\ UNCHANGED <<source, loads, db, request, response, frames, agent_sessions, chats>>

\* a request enters search_resources: results = []
BeginSearch ==
    /\ db # None
    /\ Cardinality(frames) < MaxSearches
    /\ \E q \in ConcCalls :
          frames' = frames \cup {[q |-> q, started |-> clock, last |-> clock,
                                  adv |-> <<>>, results |-> <<>>,
                                  returned |-> None]}
    /\ UNCHANGED <<source, loads, db, clock, request, response, agent_sessions, chats>>

\* one iteration of the loop of a search in flight, on the entry of
\* self.resources it has come to
StepSearch ==
    /\ \E f \in frames : \E a \in 0..MaxAdvance :
          LET i == Position(f) + 1 IN
          /\ Running(f)
          /\ i <= Len(db[1].resources)
          /\ MayAdvance(a)
          /\ LET resource == db[1].resources[i]
                 outcome == visit(resource, f.q, Instants[clock],
                                  Instants[clock + a])
             IN /\ frames' = (frames \ {f}) \cup
                                {[f EXCEPT !.adv = f.adv \o <<clock - f.last, a>>,
                                           !.last = clock + a,
                                           !.results = f.results \o outcome]}
                /\ db' = Some([resources |->
                                 [db[1].resources EXCEPT
                                     ![i] = stored_after_visit(resource, outcome)]])
                /\ clock' = clock + a
    /\ UNCHANGED <<source, loads, request, response, agent_sessions, chats>>

\* the loop is over: sort, slice, return
FinishSearch ==
    /\ \E f \in frames :
          /\ Running(f)
          /\ Position(f) = Len(db[1].resources)
          /\ frames' = (frames \ {f}) \cup
                          {[f EXCEPT !.returned =
                               Some(slice_to(sort_results(f.results, f.q),
                                             f.q.limit))]}
    /\ UNCHANGED <<source, loads, db, clock, request, response, agent_sessions, chats>>

\* the request is answered
CollectSearch ==
    /\ \E f \in frames :
          /\ ~Running(f)
          /\ frames' = frames \ {f}
    /\ UNCHANGED <<source, loads, db, clock, request, response, agent_sessions, chats>>

NextConc ==
    \/ Startup
    \/ ConcTick
    \/ BeginSearch
    \/ StepSearch
    \/ FinishSearch
    \/ CollectSearch

(***************************************************************************)
(* Calls of calculate_distance: between the places of the pool, and        *)
(* between one of them and the points close around it, in both orders.     *)
(***************************************************************************)
Places == {<<r.lat, r.lon>> : r \in Pool}

PointPairs ==
    (Places \X Places)
    \cup {<<p, <<p[1] + dlat, p[2] + dlon>>>> :
             p \in Places, dlat \in -MaxOffset..MaxOffset,
             dlon \in -MaxOffset..MaxOffset}

DistanceCalls ==
    {[kind |-> "calculate_distance",
      lat1 |-> pq[1][1], lon1 |-> pq[1][2], lat2 |-> pq[2][1], lon2 |-> pq[2][2]] :
        pq \in PointPairs}
    \cup {[kind |-> "calculate_distance",
           lat1 |-> pq[2][1], lon1 |-> pq[2][2], lat2 |-> pq[1][1], lon2 |-> pq[1][2]] :
             pq \in PointPairs}

\* calculate_distance reads nothing of the catalog: any source will do
InitDistance ==
    /\ source = [kind |-> "missing", resources |-> <<>>]
    /\ db = None
    /\ clock = 1
    /\ request = None
    /\ response = None
    /\ frames = {}
    /\ loads = 0
    /\ agent_sessions = NoSessions
    /\ chats = {}

\* a caller invokes calculate_distance
CallDistance ==
    /\ db # None
    /\ request = None
    /\ \E c \in DistanceCalls : request' = Some(c)
    /\ UNCHANGED <<source, loads, db, clock, response, frames, agent_sessions, chats>>

Distance ==
    /\ request # None
    /\ response = None
    /\ request[1].kind = "calculate_distance"
    /\ response' = Some([value |->
                           calculate_distance(request[1].lat1, request[1].lon1,
                                              request[1].lat2, request[1].lon2)])
    /\ UNCHANGED <<source, loads, db, clock, request, frames, agent_sessions, chats>>

NextDistance ==
    \/ Startup
    \/ CallDistance
    \/ Distance
    \/ Return

SpecDistance == InitDistance /\ [][NextDistance]_vars

(***************************************************************************)
(* The process over the sources that put the loader to the test.           *)
(***************************************************************************)
InitLoad ==
    /\ source \in LoadSources
    /\ db = None
    /\ clock = 1
    /\ request = None
    /\ response = None
    /\ frames = {}
    /\ loads = 0
    /\ agent_sessions = NoSessions
    /\ chats = {}

\* a caller invokes search_resources the way the resources endpoint does
CallSearchFew ==
    /\ db # None
    /\ request = None
    /\ \E q \in ConcCalls : request' = Some(q)
    /\ UNCHANGED <<source, loads, db, clock, response, frames, agent_sessions, chats>>

NextLoad ==
    \/ Startup
    \/ Tick
    \/ CallSearchFew
    \/ Search
    \/ CallGetById
    \/ GetById
    \/ CallGetAll
    \/ GetAll
    \/ CallGetByPopulation
    \/ GetByPopulation
    \/ Return

SpecLoad == InitLoad /\ [][NextLoad]_vars

\* the catalogs searched side by side: two entries let two loops interleave
ConcSources == {src \in Sources : Len(src.resources) <= 2}

\* the process at Monday 17:00:00, with no request yet: the instant up to
\* which A is open, so that the next reading of the clock finds it closed
InitConc ==
    /\ source \in ConcSources
    /\ db = None
    /\ clock = 3
    /\ request = None
    /\ response = None
    /\ frames = {}
    /\ loads = 0
    /\ agent_sessions = NoSessions
    /\ chats = {}

SpecConc == InitConc /\ [][NextConc]_vars

(***************************************************************************)
(* get_database(): the catalog object of the process.                      *)
(***************************************************************************)
\* variant: an instance whose catalog is empty is constructed again
get_database_retrying_empty(db_instance, src) ==
    IF db_instance = None \/ db_instance[1].resources = <<>>
    THEN [db_instance |-> Some([resources |-> load_resources(src)]),
          constructed |-> TRUE]
    ELSE [db_instance |-> db_instance, constructed |-> FALSE]

\* get_database(): _db_instance when it returns, and whether this call ran
\* ResourceDatabase()
get_database(db_instance, src) ==
    IF db_instance = None
    THEN [db_instance |-> Some([resources |-> load_resources(src)]),
          constructed |-> TRUE]
    ELSE [db_instance |-> db_instance, constructed |-> FALSE]

\* the places that call get_database()
Callers ==
    {"startup_event", "health_check", "chat", "_get_resources_for_location",
     "get_resources", "get_resource"}

GetDatabaseCalls == {[kind |-> "get_database", caller |-> c] : c \in Callers}

\* one of the callers invokes get_database, in whatever order
CallGetDatabase ==
    /\ request = None
    /\ \E c \in GetDatabaseCalls : request' = Some(c)
    /\ UNCHANGED <<source, loads, db, clock, response, frames, agent_sessions, chats>>

\* The object returned is told from any other by the number of the
\* construction that made it.
GetDatabase ==
    /\ request # None
    /\ response = None
    /\ request[1].kind = "get_database"
    /\ LET got == get_database(db, source) IN
        /\ db' = got.db_instance
        /\ loads' = IF got.constructed THEN loads + 1 ELSE loads
        /\ response' = Some([value |-> [object |-> loads',
                                        resources |-> db'[1].resources],
                             constructed |-> got.constructed])
    /\ UNCHANGED <<source, clock, request, frames, agent_sessions, chats>>

InitSingleton ==
    /\ source \in LoadSources
    /\ db = None
    /\ clock = 1
    /\ request = None
    /\ response = None
    /\ frames = {}
    /\ loads = 0
    /\ agent_sessions = NoSessions
    /\ chats = {}

NextSingleton ==
    \/ CallGetDatabase
    \/ GetDatabase
    \/ CallGetAll
    \/ GetAll
    \/ Return

SpecSingleton == InitSingleton /\ [][NextSingleton]_vars

(***************************************************************************)
(* The chat endpoint: the session dictionary and the agents' histories.    *)
(***************************************************************************)
\* how many chat requests the process is sent
MaxChats == 2

SessionIds == {"s1", "s2"}
AgentTypes == {"recipient", "donor"}
Messages == {"hello", "Where is FOOD?"}
Locations == {None, Some("UCLA")}

\* the values of ChatRequest
ChatRequests ==
    {[session_id |-> sid, message |-> m, agent_type |-> t, location |-> l] :
        sid \in SessionIds, m \in Messages, t \in AgentTypes, l \in Locations}

Message(role, content) == [role |-> role, content |-> content]

RecipientAgent(session_id, location) ==
    [class |-> "RecipientAgent", session_id |-> session_id,
     conversation_history |-> <<>>,
     location |-> location, dietary_needs |-> <<>>]

DonorAgent(session_id) ==
    [class |-> "DonorAgent", session_id |-> session_id,
     conversation_history |-> <<>>,
     donor_type |-> None, food_items |-> <<>>, is_recurring |-> None]

\* the agent a request of this kind constructs
new_agent(req) ==
    IF req.agent_type = "recipient"
    THEN RecipientAgent(req.session_id, req.location)
    ELSE DonorAgent(req.session_id)

\* the class a request of this kind asks for
class_of(agent_type) ==
    IF agent_type = "recipient" THEN "RecipientAgent" ELSE "DonorAgent"

\* variant: a session whose agent is of another kind than the request asks
\* for gets a new agent
sessions_after_lookup_by_kind(sessions, req) ==
    IF \/ req.session_id \notin DOMAIN sessions
       \/ sessions[req.session_id].class # class_of(req.agent_type)
    THEN [sid \in DOMAIN sessions \cup {req.session_id} |->
            IF sid = req.session_id THEN new_agent(req) ELSE sessions[sid]]
    ELSE sessions

\* agent_sessions after "get or create agent for this session"
sessions_after_lookup(sessions, req) ==
    IF req.session_id \notin DOMAIN sessions
    THEN [sid \in DOMAIN sessions \cup {req.session_id} |->
            IF sid = req.session_id THEN new_agent(req) ELSE sessions[sid]]
    ELSE sessions

\* Python truth value of an Optional[str] location: None and "" are false
given(location) == location # None /\ location[1] # ""

update_location(agent, location) == [agent EXCEPT !.location = Some(location)]

\* the agent after the location update the endpoint makes for recipients
located(agent, req) ==
    IF agent.class = "RecipientAgent" /\ given(req.location)
    THEN update_location(agent, req.location[1])
    ELSE agent

\* process_message up to the await: the user message joins the history
with_user_message(agent, user_message) ==
    [agent EXCEPT !.conversation_history =
                      Append(@, Message("user", user_message))]

\* process_message after the await, the request having succeeded
with_assistant_message(agent, assistant_message) ==
    [agent EXCEPT !.conversation_history =
                      Append(@, Message("assistant", assistant_message))]

\* what the text generator may answer
AssistantMessages == {"reply"}
error_message == "I apologize, but I encountered an error"

keywords ==
    {"food", "eat", "hungry", "meal", "pantry", "near", "help", "where", "find"}

\* `word in text` for the lower-cased texts of the model
contains(text, word) ==
    CASE text = "where is food?" -> word \in {"where", "food"}
      [] text = "ucla" -> word = "ucla"
      [] OTHER -> FALSE

should_fetch_resources(message) ==
    \E keyword \in keywords : contains(lower(message), keyword)

\* the landmarks in the order of the dictionary, in units of 0.00001 degree
landmarks ==
    <<[name |-> "ucla", lat |-> 3406890, lon |-> -11844520],
      [name |-> "westwood", lat |-> 3406890, lon |-> -11844520],
      [name |-> "santa monica", lat |-> 3401950, lon |-> -11849120],
      [name |-> "venice", lat |-> 3398500, lon |-> -11846950],
      [name |-> "culver city", lat |-> 3402110, lon |-> -11839650],
      [name |-> "west la", lat |-> 3405220, lon |-> -11844370],
      [name |-> "west hollywood", lat |-> 3409000, lon |-> -11836170]>>

\* the first landmark the location names: None, or Some(its index)
first_landmark(location) ==
    LET hits == {i \in 1..Len(landmarks) :
                    contains(lower(location), landmarks[i].name)}
    IN IF hits = {} THEN None
       ELSE Some(CHOOSE i \in hits : \A j \in hits : i <= j)

\* the search _get_resources_for_location makes at a landmark
landmark_query(landmark, dietary_needs) ==
    [kind |-> "search", lat |-> Some(landmark.lat), lon |-> Some(landmark.lon),
     max_distance_miles |-> 300, dietary_needs |-> dietary_needs,
     open_now |-> FALSE, resource_types |-> <<>>, limit |-> 3]

\* _get_resources_for_location: None, or Some(the non-empty list found)
get_resources_for_location(resources, location, dietary_needs, clk, adv) ==
    LET hit == first_landmark(location) IN
    IF hit = None THEN None
    ELSE LET found == search_resources(resources,
                          landmark_query(landmarks[hit[1]], dietary_needs),
                          clk, adv)
         IN IF found # <<>> THEN Some(found) ELSE None

\* the user messages the histories hold: one for each chat request so far
UserMessages ==
    {<<sid, i>> \in SessionIds \X (1..(2 * MaxChats)) :
        /\ sid \in DOMAIN agent_sessions
        /\ i <= Len(agent_sessions[sid].conversation_history)
        /\ agent_sessions[sid].conversation_history[i].role = "user"}

\* POST /api/chat up to the await in process_message
ChatBegin ==
    /\ Cardinality(UserMessages) < MaxChats
    /\ \E req \in ChatRequests :
        LET sessions == sessions_after_lookup(agent_sessions, req)
            agent == with_user_message(located(sessions[req.session_id], req),
                                       req.message)
        IN /\ agent_sessions' = [sessions EXCEPT ![req.session_id] = agent]
           /\ chats' = chats \cup
                         {[request |-> req,
                           messages |-> agent.conversation_history]}
    /\ UNCHANGED <<source, loads, db, clock, request, response, frames>>

\* POST /api/chat from the await on: answered tells whether the request to
\* the text generator succeeded, text is what process_message returns
ChatResume(c, answered, text) ==
    LET sid == c.request.session_id
        agent == IF answered
                 THEN with_assistant_message(agent_sessions[sid], text)
                 ELSE agent_sessions[sid]
        fetch == /\ agent.class = "RecipientAgent"
                 /\ should_fetch_resources(c.request.message)
                 /\ given(agent.location)
        got == get_database(db, source)
        resources == got.db_instance[1].resources
    IN /\ response = None
       /\ agent_sessions' = [agent_sessions EXCEPT ![sid] = agent]
       /\ chats' = chats \ {c}
       /\ IF fetch
          THEN /\ loads' = IF got.constructed THEN loads + 1 ELSE loads
               /\ \E adv \in Advances(Len(resources), clock) :
                    /\ response' =
                         Some([value |->
                                 [response |-> text,
                                  resources |->
                                      get_resources_for_location(
                                          resources, agent.location[1],
                                          agent.dietary_needs, clock, adv),
                                  session_id |-> sid]])
                    /\ clock' =
                         IF first_landmark(agent.location[1]) = None
                         THEN clock
                         ELSE clock + SumTo(adv, 2 * Len(resources))
                    /\ db' =
                         IF first_landmark(agent.location[1]) = None
                         THEN got.db_instance
                         ELSE Some([resources |->
                                 resources_after_search(
                                     resources,
                                     landmark_query(
                                         landmarks[first_landmark(agent.location[1])[1]],
                                         agent.dietary_needs),
                                     clock, adv)])
          ELSE /\ response' = Some([value |-> [response |-> text,
                                               resources |-> None,
                                               session_id |-> sid]])
               /\ UNCHANGED <<loads, db, clock>>
       /\ UNCHANGED <<source, request, frames>>

\* the text generator answers
ChatReply ==
    \E c \in chats : \E text \in AssistantMessages : ChatResume(c, TRUE, text)

\* the request to the text generator raises
ChatError ==
    \E c \in chats : ChatResume(c, FALSE, error_message)

ChatSources ==
    {[kind |-> "missing", resources |-> <<>>],
     [kind |-> "json", resources |-> <<RawA>>]}

InitChat ==
    /\ source \in ChatSources
    /\ db = None
    /\ clock = 1
    /\ request = None
    /\ response = None
    /\ frames = {}
    /\ loads = 0
    /\ agent_sessions = NoSessions
    /\ chats = {}

NextChat ==
    \/ Startup
    \/ ChatBegin
    \/ ChatReply
    \/ ChatError
    \/ Return

SpecChat == InitChat /\ [][NextChat]_vars

(***************************************************************************)
(* Vocabulary of the claims: the call that has just completed.             *)
(***************************************************************************)
SearchDone == request # None /\ response # None /\ request[1].kind = "search"
IsOpenDone == request # None /\ response # None /\ request[1].kind = "is_open_now"

Catalog == db[1].resources
Query == request[1]
\* outcome of the loop on each catalog entry: None, or Some(its copy)
Visited == response[1].visited
\* the result list before truncation, and the list returned
Matched == response[1].matched
Returned == response[1].returned

QueryPointGiven == Query.lat # None /\ Query.lon # None

\* the clock readings of the two availability checks made for catalog entry i
FilterReading(i) == Instants[response[1].started + SumTo(response[1].adv, 2 * i - 1)]
AttachReading(i) == Instants[response[1].started + SumTo(response[1].adv, 2 * i)]

RECURSIVE Flatten(_, _)
\* the values of the first n entries of a sequence of Optionals, in order
Flatten(opts, n) == IF n = 0 THEN <<>> ELSE Flatten(opts, n - 1) \o opts[n]

Range(seq) == {seq[i] : i \in 1..Len(seq)}
Count(seq, v) == Cardinality({i \in 1..Len(seq) : seq[i] = v})
SameBag(s, t) == \A v \in Range(s) \cup Range(t) : Count(s, v) = Count(t, v)

RECURSIVE IsSubseq(_, _)
\* s is obtained from t by deleting entries
IsSubseq(s, t) ==
    IF s = <<>> THEN TRUE
    ELSE IF t = <<>> THEN FALSE
    ELSE IF Head(s) = Head(t) THEN IsSubseq(Tail(s), Tail(t))
    ELSE IsSubseq(s, Tail(t))

Stripped(r) == [r EXCEPT !.distance_miles = None, !.is_open_now = None]

\* the four filters, stated on catalog entry i
DistanceTo(i) ==
    calculate_distance(Query.lat[1], Query.lon[1], Catalog[i].lat, Catalog[i].lon)
PassesOpen(i) == Query.open_now => is_open_now(Catalog[i], FilterReading(i))
PassesType(i) ==
    Query.resource_types # <<>> => Catalog[i].type \in Range(Query.resource_types)
Overlaps(needs, options) ==
    {lower(n) : n \in Range(needs)} \cap {lower(o) : o \in Range(options)} # {}
PassesDietary(i) ==
    Query.dietary_needs # <<>> => Overlaps(Query.dietary_needs, Catalog[i].dietary_options)
PassesDistance(i) == QueryPointGiven => DistanceTo(i) <= Query.max_distance_miles

(***************************************************************************)
(* C1.  With a query point, the returned list is in non-decreasing order   *)
(* of distance_miles, also when it holds a resource at distance 0.00.      *)
(***************************************************************************)
C1_SortedByDistance ==
    (SearchDone /\ QueryPointGiven) =>
        \A i \in 1..Len(Returned) : \A j \in i..Len(Returned) :
            Returned[i].distance_miles[1] <= Returned[j].distance_miles[1]

(***************************************************************************)
(* C2.  A search with limit <= 0 returns the empty list.                   *)
(***************************************************************************)
C2_NonPositiveLimitEmpty ==
    (SearchDone /\ Query.limit <= 0) => Returned = <<>>

(***************************************************************************)
(* C3.  Before truncation a catalog entry is in the result exactly when    *)
(* it passes every enabled filter (distance, dietary, type, open-now, in   *)
(* whatever order they are stated); a disabled filter excludes nothing;    *)
(* the result list holds the surviving entries and nothing else.           *)
(***************************************************************************)
C3_FilterSemantics ==
    SearchDone =>
        /\ \A i \in 1..Len(Catalog) :
              (Visited[i] # None) <=>
                  (PassesDistance(i) /\ PassesDietary(i) /\ PassesType(i) /\ PassesOpen(i))
        /\ \A i \in 1..Len(Catalog) :
              Visited[i] # None => Stripped(Visited[i][1]) = Catalog[i]
        /\ SameBag(Matched, Flatten(Visited, Len(Catalog)))

\* all four filters enabled; one entry survives and another is excluded
C3_Witness ==
    /\ SearchDone
    /\ Query.open_now /\ Query.resource_types # <<>> /\ Query.dietary_needs # <<>>
    /\ QueryPointGiven
    /\ Len(Catalog) = 2
    /\ Len(Matched) = 1

(***************************************************************************)
(* C4.  With a query point every returned resource has                     *)
(* distance_miles <= max_distance_miles, and the bound is inclusive: an    *)
(* entry at exactly max_distance_miles that passes the other filters is    *)
(* kept, one at max_distance_miles + 0.01 is excluded.                     *)
(***************************************************************************)
C4_DistanceCutoff ==
    (SearchDone /\ QueryPointGiven) =>
        /\ \A k \in 1..Len(Returned) :
              Returned[k].distance_miles[1] <= Query.max_distance_miles
        /\ \A i \in 1..Len(Catalog) :
              (PassesDietary(i) /\ PassesType(i) /\ PassesOpen(i)) =>
                  /\ DistanceTo(i) = Query.max_distance_miles => Visited[i] # None
                  /\ DistanceTo(i) = Query.max_distance_miles + 1 => Visited[i] = None

\* one entry exactly at the bound is returned, one 0.01 mile beyond it is not
C4_Witness ==
    /\ SearchDone
    /\ QueryPointGiven
    /\ \E i, j \in 1..Len(Catalog) :
          /\ DistanceTo(i) = Query.max_distance_miles
          /\ Visited[i] # None
          /\ Visited[i][1] \in Range(Returned)
          /\ DistanceTo(j) = Query.max_distance_miles + 1
          /\ PassesDietary(j) /\ PassesType(j) /\ PassesOpen(j)
          /\ Visited[j] = None

(***************************************************************************)
(* C5.  For limit = k >= 0 the returned list is the first min(k, n)        *)
(* entries of the n-entry filtered and ordered list, in the same order.    *)
(***************************************************************************)
C5_Truncation ==
    (SearchDone /\ Query.limit >= 0) =>
        /\ Len(Returned) = Min(Query.limit, Len(Matched))
        /\ \A k \in 1..Len(Returned) : Returned[k] = Matched[k]

\* two different matches, limit 1: the first alone is returned
C5_Witness ==
    /\ SearchDone
    /\ Query.limit = 1
    /\ Len(Matched) = 2
    /\ Matched[1] # Matched[2]
    /\ Returned = <<Matched[1]>>

(***************************************************************************)
(* C6.  With a non-empty dietary_needs list an entry that passes the       *)
(* other filters is kept exactly when at least one requested need equals,  *)
(* ignoring letter case, at least one of its dietary_options (any-of);     *)
(* an entry without dietary options is never kept.                         *)
(***************************************************************************)
C6_DietaryAnyOf ==
    (SearchDone /\ Query.dietary_needs # <<>>) =>
        \A i \in 1..Len(Catalog) :
            /\ (PassesDistance(i) /\ PassesType(i) /\ PassesOpen(i)) =>
                  ((Visited[i] # None) <=>
                      \E n \in Range(Query.dietary_needs) :
                          \E o \in Range(Catalog[i].dietary_options) :
                              lower(n) = lower(o))
            /\ Catalog[i].dietary_options = <<>> => Visited[i] = None

\* two needs asked; a kept entry meets one of them only, through a tag that
\* differs in letter case; an entry without options is dropped
C6_Witness ==
    /\ SearchDone
    /\ Len(Query.dietary_needs) = 2
    /\ \E i, j \in 1..Len(Catalog) :
          /\ Visited[i] # None
          /\ \E n \in Range(Query.dietary_needs) :
                lower(n) \notin {lower(o) : o \in Range(Catalog[i].dietary_options)}
          /\ Range(Query.dietary_needs) \cap Range(Catalog[i].dietary_options) = {}
          /\ Catalog[j].dietary_options = <<>>
          /\ Visited[j] = None

(***************************************************************************)
(* Vocabulary for is_open_now: what "%H:%M" text denotes which time.       *)
(***************************************************************************)
\* the decimal numerals of n: two digits, and one digit when n < 10
Numerals(n) ==
    {<<Digits[(n \div 10) + 1], Digits[(n % 10) + 1]>>}
    \cup (IF n < 10 THEN {<<Digits[n + 1]>>} ELSE {})

\* x is a numeral of an hour 0..23, y a numeral of a minute 0..59
HourNumeral(x) == \E h \in 0..23 : x \in Numerals(h)
MinuteNumeral(y) == \E m \in 0..59 : y \in Numerals(m)

\* text is an hour numeral, a colon at position k, and a minute numeral
SplitsAt(text, k) ==
    /\ text[k] = ":"
    /\ HourNumeral(SubSeq(text, 1, k - 1))
    /\ MinuteNumeral(SubSeq(text, k + 1, Len(text)))

Parseable(text) == \E k \in 1..Len(text) : SplitsAt(text, k)

\* seconds since midnight of a parseable text
TimeOf(text) ==
    LET k == CHOOSE i \in 1..Len(text) : SplitsAt(text, i)
        h == CHOOSE x \in 0..23 : SubSeq(text, 1, k - 1) \in Numerals(x)
        m == CHOOSE y \in 0..59 : SubSeq(text, k + 1, Len(text)) \in Numerals(y)
    IN 3600 * h + 60 * m

\* the day entry of the resource leaves no doubt that it is open at `now`
WithinHours(resource, now) ==
    /\ DayNames[now.weekday] \in DOMAIN resource.hours
    /\ LET e == resource.hours[DayNames[now.weekday]] IN
          /\ e.status = "open"
          /\ e.open # None /\ e.close # None
          /\ Parseable(e.open[1]) /\ Parseable(e.close[1])
          /\ TimeOf(e.open[1]) <= now.secs
          /\ now.secs <= TimeOf(e.close[1])

\* the cases in which the evaluator must answer "not open"
FailsClosed(resource, now) ==
    \/ DayNames[now.weekday] \notin DOMAIN resource.hours
    \/ LET e == resource.hours[DayNames[now.weekday]] IN
          \/ e.status \in {"closed", "variable"}
          \/ e.open = None \/ e.close = None
          \/ ~Parseable(e.open[1]) \/ ~Parseable(e.close[1])

(***************************************************************************)
(* C7.  is_open_now answers true exactly when the schedule has an entry    *)
(* for the current day with status "open", both times present and          *)
(* parseable, and open-time <= current-time <= close-time (both ends       *)
(* inclusive); an entry whose open time is later than its close time is    *)
(* never reported open.                                                    *)
(***************************************************************************)
C7_OpenIffWithinHours ==
    IsOpenDone =>
        LET resource == request[1].resource
            now == Instants[response[1].started]
        IN /\ response[1].value <=> WithinHours(resource, now)
           /\ \A d \in DOMAIN resource.hours :
                 LET e == resource.hours[d] IN
                 (/\ d = DayNames[now.weekday]
                  /\ e.open # None /\ e.close # None
                  /\ Parseable(e.open[1]) /\ Parseable(e.close[1])
                  /\ TimeOf(e.open[1]) > TimeOf(e.close[1]))
                 => response[1].value = FALSE

\* reported open at the closing instant itself
C7_Witness ==
    /\ IsOpenDone
    /\ response[1].value = TRUE
    /\ Instants[response[1].started].secs = 61200
    /\ request[1].resource.hours["monday"].close = Some(T1700)

(***************************************************************************)
(* C8.  is_open_now fails closed: for a day absent from the schedule, a    *)
(* status "closed" or "variable" whatever the times, a missing time or a   *)
(* time text that cannot be parsed, the answer is false; a search over a   *)
(* catalog holding such entries completes, never keeps such an entry       *)
(* under open_now and attaches is_open_now = false to it.                  *)
(***************************************************************************)
C8_FailsClosed ==
    /\ IsOpenDone =>
          (FailsClosed(request[1].resource, Instants[response[1].started])
              => response[1].value = FALSE)
    /\ SearchDone =>
          \A i \in 1..Len(Catalog) :
              /\ (Query.open_now /\ FailsClosed(Catalog[i], FilterReading(i)))
                    => Visited[i] = None
              /\ (Visited[i] # None /\ FailsClosed(Catalog[i], AttachReading(i)))
                    => Visited[i][1].is_open_now = Some(FALSE)

\* status "variable" with well-formed hours around the current time
C8_Witness ==
    /\ IsOpenDone
    /\ response[1].value = FALSE
    /\ Instants[response[1].started] = [weekday |-> 1, secs |-> 32400]
    /\ request[1].resource.hours["monday"] =
          HoursEntry(Some(T0900), Some(T1700), "variable")

(***************************************************************************)
(* C9.  Without a query point (lat or lon absent) no entry is excluded on  *)
(* distance whatever max_distance_miles is, every returned resource has    *)
(* distance_miles absent, and the result lists the surviving entries in    *)
(* catalog load order.                                                     *)
(***************************************************************************)
C9_NoQueryPoint ==
    (SearchDone /\ ~QueryPointGiven) =>
        /\ \A i \in 1..Len(Catalog) :
              (Visited[i] # None) <=> (PassesDietary(i) /\ PassesType(i) /\ PassesOpen(i))
        /\ Matched = Flatten(Visited, Len(Catalog))
        /\ \A k \in 1..Len(Returned) : Returned[k].distance_miles = None
        /\ IsSubseq([k \in 1..Len(Returned) |-> Stripped(Returned[k])], Catalog)

\* a latitude without a longitude, threshold 0: two different entries come
\* back, in load order
C9_Witness ==
    /\ SearchDone
    /\ Query.lat # None /\ Query.lon = None
    /\ Query.max_distance_miles = 0
    /\ Len(Returned) = 2
    /\ Returned[1].id # Returned[2].id
    /\ Stripped(Returned[1]) = Catalog[1]

(***************************************************************************)
(* C10.  Every returned resource has is_open_now set to a boolean,         *)
(* whether or not open_now was requested, and distance_miles set to a      *)
(* number exactly when a query point was given.                            *)
(***************************************************************************)
C10_DerivedFields ==
    SearchDone =>
        \A k \in 1..Len(Returned) :
            /\ Returned[k].is_open_now \in {Some(TRUE), Some(FALSE)}
            /\ (Returned[k].distance_miles # None) <=> QueryPointGiven
            /\ Returned[k].distance_miles # None => Returned[k].distance_miles[1] \in Nat

\* open_now not requested, a query point given: a closed resource comes back
\* with both fields set
C10_Witness ==
    /\ SearchDone
    /\ ~Query.open_now
    /\ QueryPointGiven
    /\ Len(Returned) >= 1
    /\ Returned[1].is_open_now = Some(FALSE)
    /\ Returned[1].distance_miles # None

(***************************************************************************)
(* Vocabulary of the claims: the lookup that has just completed.           *)
(***************************************************************************)
GetByIdDone ==
    request # None /\ response # None /\ request[1].kind = "get_resource_by_id"
GetAllDone ==
    request # None /\ response # None /\ request[1].kind = "get_all_resources"
GetByPopulationDone ==
    /\ request # None /\ response # None
    /\ request[1].kind = "get_resources_by_target_population"

\* the value a lookup has returned
Value == response[1].value

NoDerived(r) == r.distance_miles = None /\ r.is_open_now = None

(***************************************************************************)
(* C11.  Whatever searches and lookups have run, the stored catalog is     *)
(* the list the loader built: the same records in the same order, each     *)
(* with distance_miles and is_open_now absent; a lookup therefore never    *)
(* shows a value some search has derived.                                  *)
(***************************************************************************)
C11_CatalogUnchanged ==
    db # None =>
        /\ Catalog = load_resources(source)
        /\ \A i \in 1..Len(Catalog) : NoDerived(Catalog[i])
        /\ (GetByIdDone /\ Value # None) => NoDerived(Value[1])
        /\ (GetAllDone \/ GetByPopulationDone) =>
              \A k \in 1..Len(Value) : NoDerived(Value[k])

\* a search has just handed out a copy carrying a distance and an open flag,
\* and the stored entry it was copied from carries neither
C11_Witness ==
    /\ SearchDone
    /\ \E k \in 1..Len(Returned) : \E i \in 1..Len(Catalog) :
          /\ Returned[k].id = Catalog[i].id
          /\ Returned[k].distance_miles # None
          /\ Returned[k].is_open_now = Some(TRUE)
          /\ NoDerived(Catalog[i])

(***************************************************************************)
(* C12.  Searches interleaved over the shared catalog: at every point the  *)
(* local results of each are those of the same search run alone on the     *)
(* loaded catalog with the same arguments and the same clock readings, so  *)
(* is the list it returns, and the catalog stays as loaded.                *)
(***************************************************************************)
C12_InterleavedSearches ==
    db # None =>
        /\ db[1].resources = load_resources(source)
        /\ \A f \in frames :
              /\ f.results = scan(load_resources(source), f.q, f.started,
                                  f.adv, Position(f))
              /\ f.returned # None =>
                    f.returned[1] = search_resources(load_resources(source),
                                                     f.q, f.started, f.adv)

\* one search began, a second began after it and ran to its return with two
\* results while the first was in the middle of its loop
C12_Witness ==
    \E f, g \in frames :
        /\ Running(f)
        /\ 0 < Position(f) /\ Position(f) < Len(db[1].resources)
        /\ f.results # <<>>
        /\ f.started < g.started
        /\ ~Running(g)
        /\ Len(g.returned[1]) = 2
        /\ f.q # g.q

(***************************************************************************)
(* C13.  When the source is missing or malformed (no file, no JSON, or a   *)
(* record the loader cannot build a Resource from) the construction ends   *)
(* with an empty catalog, and from then on every search and get_all        *)
(* returns the empty list and every get_resource_by_id returns None.       *)
(***************************************************************************)
Unreadable(src) ==
    \/ src.kind # "json"
    \/ \E n \in 1..Len(src.resources) : ~record_valid(src.resources[n])

C13_EmptyOnLoadFailure ==
    (db # None /\ Unreadable(source)) =>
        /\ Catalog = <<>>
        /\ SearchDone => Returned = <<>>
        /\ GetAllDone => Value = <<>>
        /\ GetByIdDone => Value = None

\* the source holds a well-formed first record and a broken one after it;
\* the id of the first is looked up and not found
C13_Witness ==
    /\ GetByIdDone
    /\ source.kind = "json"
    /\ Len(source.resources) >= 2
    /\ record_valid(source.resources[1])
    /\ ~record_valid(source.resources[2])
    /\ request[1].resource_id = source.resources[1].id
    /\ Value = None

(***************************************************************************)
(* C14.  get_resource_by_id returns a stored resource whose id equals the  *)
(* argument when the catalog holds one, and None (no exception) for every  *)
(* id the catalog does not hold, the empty catalog included.               *)
(***************************************************************************)
C14_LookupById ==
    GetByIdDone =>
        LET held == {i \in 1..Len(Catalog) : Catalog[i].id = request[1].resource_id}
        IN /\ held # {} => (Value # None /\ \E i \in held : Value[1] = Catalog[i])
           /\ held = {} => Value = None

\* the second entry of the catalog is looked up and returned
C14_Witness ==
    /\ GetByIdDone
    /\ Len(Catalog) >= 2
    /\ Catalog[1].id # request[1].resource_id
    /\ Catalog[2].id = request[1].resource_id
    /\ Value = Some(Catalog[2])

(***************************************************************************)
(* C15.  get_resources_by_target_population(tag) returns exactly the       *)
(* catalog entries whose target_population is tag or "general", in         *)
(* catalog order, whatever their place, hours, type or dietary options     *)
(* and however many they are.                                              *)
(***************************************************************************)
C15_ByPopulation ==
    GetByPopulationDone =>
        LET tag == request[1].population
            Serves(r) == r.target_population \in {tag, "general"}
        IN /\ IsSubseq(Value, Catalog)
           /\ \A k \in 1..Len(Value) : Serves(Value[k])
           /\ Len(Value) = Cardinality({i \in 1..Len(Catalog) : Serves(Catalog[i])})

\* a tag that is not the sentinel: one entry with the tag and one "general"
\* entry come back, a third entry does not
C15_Witness ==
    /\ GetByPopulationDone
    /\ request[1].population = "students"
    /\ Len(Catalog) = 3
    /\ Len(Value) = 2
    /\ \E k \in 1..2 : Value[k].target_population = "students"
    /\ \E k \in 1..2 : Value[k].target_population = "general"

(***************************************************************************)
(* C16.  Once the catalog is loaded no two of its resources have the same  *)
(* id: a source holding two records with one id does not yield a catalog   *)
(* holding both.                                                           *)
(***************************************************************************)
C16_UniqueIds ==
    db # None =>
        \A i, j \in 1..Len(Catalog) : Catalog[i].id = Catalog[j].id => i = j

(***************************************************************************)
(* Vocabulary for calculate_distance.                                      *)
(***************************************************************************)
DistanceDone ==
    request # None /\ response # None /\ request[1].kind = "calculate_distance"

SamePoint == request[1].lat1 = request[1].lat2 /\ request[1].lon1 = request[1].lon2

\* Two points are less than 0.005 mile apart, measured on the plane
\* tangent at latitude 34.07: a unit of latitude is 0.00069098 mile, a unit
\* of longitude cos(34.07 degrees) = 0.8286 of that, and 0.005 mile is 7.2361
\* units of latitude (every quantity multiplied by 10^4 and squared).
Near(lat1, lon1, lat2, lon2) ==
    LET dlat == lat2 - lat1
        dlon == lon2 - lon1
    IN /\ dlat * dlat + dlon * dlon < 1000      \* keeps the products small
       /\ 10000 * dlat * dlat + 6866 * dlon * dlon < 523613

UnderHalfCent ==
    Near(request[1].lat1, request[1].lon1, request[1].lat2, request[1].lon2)

(***************************************************************************)
(* C17.  calculate_distance(A, B) = calculate_distance(B, A) for all       *)
(* points A and B, and the result is 0.00 exactly when A and B are the     *)
(* same point.                                                             *)
(***************************************************************************)
C17_SymmetricZeroIffSame ==
    DistanceDone =>
        /\ Value = calculate_distance(request[1].lat2, request[1].lon2,
                                      request[1].lat1, request[1].lon1)
        /\ Value = 0 <=> SamePoint

(***************************************************************************)
(* C17, amended.  calculate_distance(A, B) = calculate_distance(B, A),     *)
(* the result is 0.00 when A and B are the same point, and, being rounded  *)
(* to 2 decimals, it is 0.00 exactly when A and B are less than 0.005      *)
(* mile apart.                                                             *)
(***************************************************************************)
C17_SymmetricZeroIffNear ==
    DistanceDone =>
        /\ Value = calculate_distance(request[1].lat2, request[1].lon2,
                                      request[1].lat1, request[1].lon1)
        /\ SamePoint => Value = 0
        /\ Value = 0 <=> UnderHalfCent

\* two points that differ in latitude and in longitude, at distance 0.00
C17_Witness ==
    /\ DistanceDone
    /\ request[1].lat1 # request[1].lat2
    /\ request[1].lon1 # request[1].lon2
    /\ Value = 0

(***************************************************************************)
(* C18.  A search with open_now = true returns only resources whose        *)
(* is_open_now is true, however the clock advances while the search runs   *)
(* (the availability is evaluated once to filter and once more for the     *)
(* attached field).                                                        *)
(***************************************************************************)
C18_OpenNowFlag ==
    (SearchDone /\ Query.open_now) =>
        \A k \in 1..Len(Returned) : Returned[k].is_open_now = Some(TRUE)

(***************************************************************************)
(* C19.  With a query point and max_distance_miles = 0 a search keeps no   *)
(* resource but those whose coordinates are exactly the query point's.     *)
(***************************************************************************)
C19_ZeroRadiusExact ==
    (SearchDone /\ QueryPointGiven /\ Query.max_distance_miles = 0) =>
        \A i \in 1..Len(Catalog) :
            Visited[i] # None =>
                (Catalog[i].lat = Query.lat[1] /\ Catalog[i].lon = Query.lon[1])

(***************************************************************************)
(* C19, amended.  With a query point and max_distance_miles = 0 a search   *)
(* keeps, of the resources that pass the other filters, exactly those      *)
(* whose distance rounds to 0.00: the ones less than 0.005 mile from the   *)
(* query point, those at the query point among them.                       *)
(***************************************************************************)
C19_ZeroRadiusRounded ==
    (SearchDone /\ QueryPointGiven /\ Query.max_distance_miles = 0) =>
        \A i \in 1..Len(Catalog) :
            /\ Visited[i] # None => Visited[i][1].distance_miles = Some(0)
            /\ (PassesDietary(i) /\ PassesType(i) /\ PassesOpen(i)) =>
                  ((Visited[i] # None) <=>
                      Near(Query.lat[1], Query.lon[1], Catalog[i].lat, Catalog[i].lon))

\* radius 0: a resource a few yards off the query point is returned, and a
\* resource half a mile off, which passes the other filters, is not
C19_Witness ==
    /\ SearchDone /\ QueryPointGiven /\ Query.max_distance_miles = 0
    /\ \E i, j \in 1..Len(Catalog) :
          /\ Visited[i] # None
          /\ Visited[i][1] \in Range(Returned)
          /\ Catalog[i].lat # Query.lat[1] /\ Catalog[i].lon # Query.lon[1]
          /\ Visited[j] = None
          /\ PassesDietary(j) /\ PassesType(j) /\ PassesOpen(j)

(***************************************************************************)
(* C20.  With a non-empty resource_types list a search keeps a resource    *)
(* that passes the other filters exactly when its type equals one of the   *)
(* requested types ignoring letter case, the way dietary tags are          *)
(* compared: "Food_Pantry" asks for the resources of type "food_pantry".   *)
(***************************************************************************)
C20_TypeIgnoringCase ==
    (SearchDone /\ Query.resource_types # <<>>) =>
        \A i \in 1..Len(Catalog) :
            (PassesDistance(i) /\ PassesDietary(i) /\ PassesOpen(i)) =>
                ((Visited[i] # None) <=>
                    \E t \in Range(Query.resource_types) :
                        lower(t) = lower(Catalog[i].type))

(***************************************************************************)
(* C21.  Whatever get_database calls the startup event, the health check,  *)
(* the chat and the resource endpoints make, in whatever order, the        *)
(* catalog object is constructed and the source loaded at most once, and   *)
(* every call returns that one object: also when the load failed and the   *)
(* catalog is empty.                                                       *)
(***************************************************************************)
GetDatabaseDone ==
    request # None /\ response # None /\ request[1].kind = "get_database"

C21_Singleton ==
    /\ loads <= 1
    /\ (db = None) <=> (loads = 0)
    /\ GetDatabaseDone =>
        /\ Value.object = 1
        /\ Value.resources = Catalog

\* the load has failed on a source that holds records, and a later call by
\* the health check finds the object in place
C21_Witness ==
    /\ GetDatabaseDone
    /\ request[1].caller = "health_check"
    /\ ~response[1].constructed
    /\ source.kind = "json"
    /\ source.resources # <<>>
    /\ Unreadable(source)
    /\ Catalog = <<>>
    /\ loads = 1

(***************************************************************************)
(* C22.  Loading is all-or-nothing: once ResourceDatabase is constructed,  *)
(* the catalog holds every record of the source exactly once in source     *)
(* order, or it is empty; a record that fails to load never leaves a       *)
(* proper prefix (or any other part) of the source in the catalog.         *)
(***************************************************************************)
\* catalog entry e carries the fields of source record raw, as given
Holds(e, raw) ==
    /\ DOMAIN raw \subseteq DOMAIN e
    /\ \A f \in DOMAIN raw : e[f] = raw[f]

WholeSource ==
    /\ Len(Catalog) = Len(source.resources)
    /\ \A i \in 1..Len(Catalog) : Holds(Catalog[i], source.resources[i])

C22_AllOrNothing == db # None => (Catalog = <<>> \/ WholeSource)

\* two well-formed records come first and the third one fails: nothing of
\* the source is kept
C22_Witness ==
    /\ db # None
    /\ source.kind = "json"
    /\ Len(source.resources) = 3
    /\ record_valid(source.resources[1])
    /\ record_valid(source.resources[2])
    /\ ~record_valid(source.resources[3])
    /\ Catalog = <<>>
    /\ GetAllDone
    /\ Value = <<>>

(***************************************************************************)
(* Vocabulary for the chat endpoint.                                       *)
(***************************************************************************)
History(sid) == agent_sessions[sid].conversation_history

IsPrefix(s, t) == Len(s) <= Len(t) /\ \A i \in 1..Len(s) : s[i] = t[i]

(***************************************************************************)
(* C23.  Whatever process_message calls an agent has served, those whose   *)
(* request to the text generator failed and those that overlapped at the   *)
(* await included, its conversation_history alternates roles starting      *)
(* with "user": no two consecutive entries have the same role (so every    *)
(* user entry but possibly the last is followed by an assistant entry).    *)
(***************************************************************************)
C23_Alternates ==
    \A sid \in DOMAIN agent_sessions :
        /\ History(sid) # <<>> => History(sid)[1].role = "user"
        /\ \A i \in 1..(Len(History(sid)) - 1) :
              History(sid)[i].role # History(sid)[i + 1].role

(***************************************************************************)
(* C24.  In the session dictionary each session_id maps to at most one     *)
(* agent for the life of the process: the first chat request for the id    *)
(* creates it, of the kind that request asks for; later requests for the   *)
(* id reuse it and never replace it or change its kind, whatever           *)
(* agent_type they carry; and no entry is ever removed.                    *)
(***************************************************************************)
\* the session's entry is kept, of the same kind, its history only growing
SameAgent(sid) ==
    /\ sid \in DOMAIN agent_sessions'
    /\ agent_sessions'[sid].class = agent_sessions[sid].class
    /\ agent_sessions'[sid].session_id = agent_sessions[sid].session_id
    /\ IsPrefix(History(sid), agent_sessions'[sid].conversation_history)

\* the session's entry is made by a chat request for it that begins now,
\* and is of the kind the request asks for
CreatedAsAsked(sid) ==
    \E c \in chats' \ chats :
        /\ c.request.session_id = sid
        /\ agent_sessions'[sid].class = class_of(c.request.agent_type)
        /\ agent_sessions'[sid].session_id = sid
        /\ agent_sessions'[sid].conversation_history =
              <<Message("user", c.request.message)>>

C24_OneAgentPerSession ==
    [][/\ \A sid \in DOMAIN agent_sessions : SameAgent(sid)
       /\ \A sid \in DOMAIN agent_sessions' \ DOMAIN agent_sessions :
              CreatedAsAsked(sid)]_vars

\* a request that asks for a donor is being served by the recipient agent
\* an earlier request for the same session created
C24_Witness ==
    \E c \in chats :
        /\ c.request.agent_type = "donor"
        /\ c.request.session_id \in DOMAIN agent_sessions
        /\ agent_sessions[c.request.session_id].class = "RecipientAgent"
        /\ Len(c.messages) >= 2
        /\ c.messages[1].role = "user"
        /\ c.messages[2].role = "assistant"
====
